---- MODULE Spec2Model ----
(***************************************************************************)
(* Model of scripts/chunk.py: HeaderTracker and TextSplitter.              *)
(*                                                                         *)
(* A Python str is modelled as a sequence of one-character strings, with   *)
(* 0-based Python offsets translated to 1-based sequence indices inside    *)
(* the helpers.  Characters that cannot be written in a TLA+ string        *)
(* literal are named by their code point (BACKTICK, FULLSTOP, ...).        *)
(***************************************************************************)
EXTENDS Integers, Sequences, FiniteSets, TLC

(***************************************************************************)
(* Characters                                                              *)
(***************************************************************************)
BACKTICK == "U+0060"
FULLSTOP == "U+3002"
FW_EXCLAM == "U+FF01"
FW_QUESTION == "U+FF1F"

\* str.strip() and the regex class \s : the whitespace characters
Whitespace == {" ", "\t", "\n", "\r", "\f"}

Min(a, b) == IF a < b THEN a ELSE b

Max(a, b) == IF a > b THEN a ELSE b

(***************************************************************************)
(* Python string primitives                                                *)
(***************************************************************************)
\* s[i:j] with Python's treatment of negative and out-of-range indices
PySlice(s, i, j) ==
    LET n  == Len(s)
        lo == IF i < 0 THEN Max(i + n, 0) ELSE Min(i, n)
        hi == IF j < 0 THEN Max(j + n, 0) ELSE Min(j, n)
    IN  IF lo >= hi THEN <<>> ELSE SubSeq(s, lo + 1, hi)

\* s[i:]
PySliceFrom(s, i) == PySlice(s, i, Len(s))

RECURSIVE LStrip(_)
LStrip(s) ==
    IF s # <<>> /\ Head(s) \in Whitespace THEN LStrip(Tail(s)) ELSE s

RECURSIVE RStrip(_)
RStrip(s) ==
    IF s # <<>> /\ s[Len(s)] \in Whitespace
    THEN RStrip(SubSeq(s, 1, Len(s) - 1))
    ELSE s

\* str.strip()
Strip(s) == RStrip(LStrip(s))

\* text.startswith(sub, p), p a 0-based offset
StartsWithAt(text, sub, p) ==
    /\ p >= 0
    /\ p + Len(sub) <= Len(text)
    /\ \A k \in 1..Len(sub) : text[p + k] = sub[k]

\* text.find(sub, p): the least offset >= p where sub occurs, or -1
Find(text, sub, p) ==
    LET hits == {q \in p..(Len(text) - Len(sub)) : StartsWithAt(text, sub, q)}
    IN  IF hits = {} THEN -1
        ELSE CHOOSE q \in hits : \A r \in hits : q <= r

\* sep in text
Contains(text, sep) == Find(text, sep, 0) # -1

\* text.split(sep): the parts between non-overlapping occurrences of sep,
\* found left to right; empty parts are kept
RECURSIVE StrSplit(_, _)
StrSplit(text, sep) ==
    LET q == Find(text, sep, 0)
    IN  IF q = -1 THEN <<text>>
        ELSE <<PySlice(text, 0, q)>> \o StrSplit(PySliceFrom(text, q + Len(sep)), sep)

\* the concatenation of a list of strings
RECURSIVE Concat(_)
Concat(ss) == IF ss = <<>> THEN <<>> ELSE Head(ss) \o Concat(Tail(ss))

\* sep.join(ss)
RECURSIVE Join(_, _)
Join(sep, ss) ==
    IF ss = <<>> THEN <<>>
    ELSE IF Len(ss) = 1 THEN ss[1]
    ELSE ss[1] \o sep \o Join(sep, Tail(ss))

\* the length of the longest run of characters of set cs starting at offset p
RECURSIVE RunLen(_, _, _)
RunLen(text, cs, p) ==
    IF p < Len(text) /\ text[p + 1] \in cs
    THEN 1 + RunLen(text, cs, p + 1)
    ELSE 0

\* the length of the longest run of characters other than "\n" at offset p
RECURSIVE LineRunLen(_, _)
LineRunLen(text, p) ==
    IF p < Len(text) /\ text[p + 1] # "\n"
    THEN 1 + LineRunLen(text, p + 1)
    ELSE 0

(***************************************************************************)
(* HeaderTracker                                                           *)
(***************************************************************************)
\* HeaderTracker.__init__: active_headers = {}
EmptyHeaders == <<>>

\* HeaderMatchAt with re.MULTILINE left out: ^ holds at offset 0 only, and $
\* only at the end of the text or before a newline that ends the text
HeaderMatchAtWholeText(text, p) ==
    LET h  == RunLen(text, {"#"}, p)
        q  == p + h
        w  == RunLen(text, Whitespace, q)
        js == {j \in 1..w :
                  LET e == q + j + LineRunLen(text, q + j)
                  IN  /\ LineRunLen(text, q + j) >= 1
                      /\ (e = Len(text) \/ (e = Len(text) - 1 /\ text[e + 1] = "\n"))}
        j  == CHOOSE x \in js : \A y \in js : y <= x
        n  == LineRunLen(text, q + j)
    IN  IF /\ p = 0
           /\ h >= 1 /\ h <= 6
           /\ js # {}
        THEN [found |-> TRUE, hashes |-> h,
              title |-> PySlice(text, q + j, q + j + n), end |-> q + j + n]
        ELSE [found |-> FALSE, hashes |-> 0, title |-> <<>>, end |-> p]

\* One match attempt of  ^(#{1,6})\s+(.+)$  (re.MULTILINE) at offset p.
\* ^ needs the start of a line.  #{1,6} is greedy and cannot give back a
\* '#', since \s must follow.  \s+ is greedy and gives back whitespace until
\* (.+), which takes the rest of the line, has at least one character; $ then
\* holds because (.+) stops at "\n" or at the end of the text.
HeaderMatchAt(text, p) ==
    LET h  == RunLen(text, {"#"}, p)
        q  == p + h
        w  == RunLen(text, Whitespace, q)
        js == {j \in 1..w : LineRunLen(text, q + j) >= 1}
        j  == CHOOSE x \in js : \A y \in js : y <= x
        n  == LineRunLen(text, q + j)
    IN  IF /\ (p = 0 \/ text[p] = "\n")
           /\ h >= 1 /\ h <= 6
           /\ js # {}
        THEN [found |-> TRUE, hashes |-> h,
              title |-> PySlice(text, q + j, q + j + n), end |-> q + j + n]
        ELSE [found |-> FALSE, hashes |-> 0, title |-> <<>>, end |-> p]

\* re.findall(r'^(#{1,6})\s+(.+)$', text, re.MULTILINE) from offset p on:
\* the non-overlapping matches, left to right
RECURSIVE FindHeaders(_, _)
FindHeaders(text, p) ==
    IF p >= Len(text) THEN <<>>
    ELSE LET m == HeaderMatchAt(text, p)
         IN  IF m.found
             THEN <<[hashes |-> m.hashes, title |-> m.title]>> \o FindHeaders(text, m.end)
             ELSE FindHeaders(text, p + 1)

\* SetHeader without the deletion of the deeper levels
SetHeaderKeepDeeper(headers, level, title) ==
    [k \in (DOMAIN headers) \cup {level} |->
        IF k = level THEN Strip(title) ELSE headers[k]]

\* the body of the for loop of update_from_text, for one (hashes, title)
SetHeader(headers, level, title) ==
    LET keep == {k \in (DOMAIN headers) \cup {level} : ~(k > level)}
    IN  [k \in keep |-> IF k = level THEN Strip(title) ELSE headers[k]]

\* HeaderTracker.get_headers
RECURSIVE TitlesFrom(_, _)
TitlesFrom(headers, k) ==
    IF k > 6 THEN <<>>
    ELSE (IF k \in DOMAIN headers THEN <<headers[k]>> ELSE <<>>)
         \o TitlesFrom(headers, k + 1)

get_headers(headers) == Join(<<" ", ">", " ">>, TitlesFrom(headers, 1))

(***************************************************************************)
(* TextSplitter: configuration                                             *)
(***************************************************************************)
\* the defaults of TextSplitter.__init__, the values run() passes
DefaultChunkSize == 200

DefaultChunkOverlap == 50

separators ==
    << <<"\n", "\n", "\n">>, <<"\n", "\n">>, <<"\n">>,
       <<FULLSTOP>>, <<FW_EXCLAM>>, <<FW_QUESTION>> >>

\* the five regular expressions, in list order
protect_patterns == <<"latex", "code", "image", "link", "table">>

(***************************************************************************)
(* TextSplitter.extract_protected_ranges                                   *)
(***************************************************************************)
\* \$\$[\s\S]*?\$\$  and  ```[\s\S]*?```  at offset p: the opening delimiter,
\* then the nearest closing delimiter after it.  The end offset, or -1.
DelimitedEnd(text, delim, p) ==
    IF StartsWithAt(text, delim, p)
    THEN LET e == Find(text, delim, p + Len(delim))
         IN  IF e = -1 THEN -1 ELSE e + Len(delim)
    ELSE -1

\* \(.*?\) from offset p: the nearest ")" with no "\n" before it, or -1
ClosingParen(text, p) ==
    LET j == Find(text, <<")">>, p)
    IN  IF j # -1 /\ j - p <= LineRunLen(text, p) THEN j ELSE -1

\* \[.*?\]\(.*?\)  at offset p: "[", then the nearest "](" on the same line
\* that a closing ")" on its line follows.  The end offset, or -1.
LinkEnd(text, p) ==
    LET is == {i \in (p + 1)..(Len(text) - 1) :
                  /\ StartsWithAt(text, <<"]", "(">>, i)
                  /\ i - (p + 1) <= LineRunLen(text, p + 1)
                  /\ ClosingParen(text, i + 2) # -1}
        i  == CHOOSE x \in is : \A y \in is : x <= y
    IN  IF StartsWithAt(text, <<"[">>, p) /\ is # {}
        THEN ClosingParen(text, i + 2) + 1
        ELSE -1

\* !\[.*?\]\(.*?\)  at offset p
ImageEnd(text, p) ==
    IF StartsWithAt(text, <<"!">>, p) THEN LinkEnd(text, p + 1) ELSE -1

\* [ ]*(?:\|[^|\n]*)+\|  at offset p: the spaces at p, a "|", and everything
\* up to the last "|" of that line, which must be a second one
TableEnd(text, p) ==
    LET first == p + RunLen(text, {" "}, p)
        line  == LineRunLen(text, first)
        pipes == {q \in (first + 1)..(first + line - 1) : text[q + 1] = "|"}
        last  == CHOOSE x \in pipes : \A y \in pipes : y <= x
    IN  IF StartsWithAt(text, <<"|">>, first) /\ pipes # {}
        THEN last + 1
        ELSE -1

MatchEnd(pattern, text, p) ==
    CASE pattern = "latex" -> DelimitedEnd(text, <<"$", "$">>, p)
      [] pattern = "code"  -> DelimitedEnd(text, <<BACKTICK, BACKTICK, BACKTICK>>, p)
      [] pattern = "image" -> ImageEnd(text, p)
      [] pattern = "link"  -> LinkEnd(text, p)
      [] pattern = "table" -> TableEnd(text, p)

\* re.finditer(pattern, text) from offset p on, as (start, end) pairs
RECURSIVE FindIter(_, _, _)
FindIter(pattern, text, p) ==
    IF p >= Len(text) THEN <<>>
    ELSE LET e == MatchEnd(pattern, text, p)
         IN  IF e # -1
             THEN << <<p, e>> >> \o FindIter(pattern, text, e)
             ELSE FindIter(pattern, text, p + 1)

\* the order of tuples (start, end) used by list.sort()
RangeLeq(a, b) == a[1] < b[1] \/ (a[1] = b[1] /\ a[2] <= b[2])

RECURSIVE InsertRange(_, _)
InsertRange(r, sorted) ==
    IF sorted = <<>> THEN <<r>>
    ELSE IF RangeLeq(r, Head(sorted)) THEN <<r>> \o sorted
    ELSE <<Head(sorted)>> \o InsertRange(r, Tail(sorted))

RECURSIVE SortRanges(_)
SortRanges(rs) ==
    IF rs = <<>> THEN <<>> ELSE InsertRange(Head(rs), SortRanges(Tail(rs)))

RECURSIVE AllMatches(_, _)
AllMatches(text, k) ==
    IF k > Len(protect_patterns) THEN <<>>
    ELSE FindIter(protect_patterns[k], text, 0) \o AllMatches(text, k + 1)

extract_protected_ranges(text) == SortRanges(AllMatches(text, 1))

(***************************************************************************)
(* TextSplitter.recursive_split                                            *)
(*                                                                         *)
(* The result is [ok, res]: ok is FALSE when the call does not return.     *)
(***************************************************************************)
\* FixedWidth with the next slice starting one character too late
RECURSIVE FixedWidthSkipping(_, _, _, _, _)
FixedWidthSkipping(text, size, start, result, fuel) ==
    IF ~(start < Len(text)) THEN [ok |-> TRUE, res |-> result]
    ELSE IF fuel = 0 THEN [ok |-> FALSE, res |-> result]
    ELSE LET end == Min(start + size, Len(text))
         IN  FixedWidthSkipping(text, size, end + 1,
                                Append(result, PySlice(text, start, end)), fuel - 1)

\* The while loop of the fixed-width fallback.  Every iteration of a run
\* that ends moves start forward by at least one, so such a run makes at
\* most len(text) iterations; fuel counts the iterations still allowed and
\* the loop is reported as not returning when it needs more.
RECURSIVE FixedWidth(_, _, _, _, _)
FixedWidth(text, size, start, result, fuel) ==
    IF ~(start < Len(text)) THEN [ok |-> TRUE, res |-> result]
    ELSE IF fuel = 0 THEN [ok |-> FALSE, res |-> result]
    ELSE LET end == Min(start + size, Len(text))
         IN  FixedWidth(text, size, end,
                        Append(result, PySlice(text, start, end)), fuel - 1)

\* for sep in self.separators: if sep in text: the first such separator
FirstSeparator(text) ==
    LET ks == {k \in 1..Len(separators) : Contains(text, separators[k])}
    IN  IF ks = {} THEN 0 ELSE CHOOSE k \in ks : \A l \in ks : k <= l

RECURSIVE recursive_split(_, _)
RECURSIVE SplitParts(_, _)
\* for part in parts: result.extend(self.recursive_split(part))
SplitParts(parts, size) ==
    IF parts = <<>> THEN [ok |-> TRUE, res |-> <<>>]
    ELSE LET h == recursive_split(Head(parts), size)
         IN  IF ~h.ok THEN h
             ELSE LET t == SplitParts(Tail(parts), size)
                  IN  [ok |-> t.ok, res |-> h.res \o t.res]

recursive_split(raw, size) ==
    LET text == Strip(raw)
        k    == FirstSeparator(text)
    IN  IF text = <<>> THEN [ok |-> TRUE, res |-> <<>>]
        ELSE IF Len(text) <= size THEN [ok |-> TRUE, res |-> <<text>>]
        ELSE IF k # 0 THEN SplitParts(StrSplit(text, separators[k]), size)
        ELSE FixedWidth(text, size, 0, <<>>, Len(text))

(***************************************************************************)
(* TextSplitter.split_preserving_protected                                 *)
(*                                                                         *)
(* Each segment is returned with a mark telling whether it is a protected  *)
(* range (appended verbatim) or a piece returned by recursive_split.       *)
(***************************************************************************)
Pieces(r) == [i \in 1..Len(r.res) |-> [txt |-> r.res[i], prot |-> FALSE]]

RECURSIVE SplitRanges(_, _, _, _, _)
SplitRanges(text, protected, k, last_index, size) ==
    IF k > Len(protected)
    THEN IF last_index < Len(text)
         THEN LET g == recursive_split(PySliceFrom(text, last_index), size)
              IN  [ok |-> g.ok, res |-> Pieces(g)]
         ELSE [ok |-> TRUE, res |-> <<>>]
    ELSE LET start == protected[k][1]
             end   == protected[k][2]
             g     == IF start > last_index
                      THEN recursive_split(PySlice(text, last_index, start), size)
                      ELSE [ok |-> TRUE, res |-> <<>>]
         IN  IF ~g.ok THEN [ok |-> FALSE, res |-> <<>>]
             ELSE LET rest == SplitRanges(text, protected, k + 1, end, size)
                  IN  [ok  |-> rest.ok,
                       res |-> Pieces(g)
                               \o <<[txt |-> PySlice(text, start, end), prot |-> TRUE]>>
                               \o rest.res]

split_preserving_protected(text, protected, size) ==
    SplitRanges(text, protected, 1, 0, size)

(***************************************************************************)
(* TextSplitter.merge_chunks                                               *)
(***************************************************************************)
\* current_chunk[-overlap:] if overlap < len(current_chunk) else current_chunk
Overlap(current_chunk, overlap) ==
    IF overlap < Len(current_chunk)
    THEN PySliceFrom(current_chunk, -overlap)
    ELSE current_chunk

RECURSIVE MergeLoop(_, _, _, _, _, _)
MergeLoop(segs, k, chunks_, current_chunk, size, overlap) ==
    IF k > Len(segs)
    THEN IF current_chunk # <<>> THEN Append(chunks_, current_chunk) ELSE chunks_
    ELSE IF Len(current_chunk) + Len(segs[k]) > size
    THEN MergeLoop(segs, k + 1,
                   IF current_chunk # <<>> THEN Append(chunks_, current_chunk)
                                           ELSE chunks_,
                   Overlap(current_chunk, overlap) \o segs[k], size, overlap)
    ELSE MergeLoop(segs, k + 1, chunks_, current_chunk \o segs[k], size, overlap)

merge_chunks(segs, size, overlap) == MergeLoop(segs, 1, <<>>, <<>>, size, overlap)

(***************************************************************************)
(* TextSplitter.split, step 5                                              *)
(***************************************************************************)
\* WithHeaders with a single newline between the header path and the chunk
WithHeadersOneNewline(headers, chunk) ==
    IF headers # <<>> THEN headers \o <<"\n">> \o chunk ELSE chunk

\* f"{headers}\n\n{chunk}" if headers else chunk
WithHeaders(headers, chunk) ==
    IF headers # <<>> THEN headers \o <<"\n", "\n">> \o chunk ELSE chunk

(***************************************************************************)
(* Bounds and inputs                                                       *)
(***************************************************************************)
MaxTokens == 4

MaxChunkSize == 2

MaxOverlap == 2

MaxCalls == 2

\* the building blocks of the generated documents
Tokens ==
    { <<"a">>, <<" ">>, <<"\n">>, <<"#">>, <<"|">>, <<FULLSTOP>>,
      <<"!", "[", "]", "(", ")">> }

RECURSIVE DocsUpTo(_)
DocsUpTo(n) ==
    IF n = 0 THEN {<<>>}
    ELSE LET shorter == DocsUpTo(n - 1)
         IN  shorter \cup {d \o t : d \in shorter, t \in Tokens}

TitleDoc ==
    <<"#", " ", "T", "i", "t", "l", "e", "\n", "\n", "S", "o", "m", "e", " ",
      "s", "h", "o", "r", "t", " ", "p", "a", "r", "a", "g", "r", "a", "p", "h", ".">>

HeadersABC == <<"#", " ", "A", "\n", "#", "#", " ", "B", "\n", "#", " ", "C">>

FixedDocs ==
    { TitleDoc, HeadersABC,
      <<BACKTICK, BACKTICK, BACKTICK, "x", "\n", "y", BACKTICK, BACKTICK, BACKTICK, " ", "z">>,
      <<"a", " ", "$", "$", "x", "$", "$", FW_EXCLAM, "b", FW_QUESTION, "c">>,
      <<"a", "a", " ", "[", "b", "]", "(", "c", ")", "\n", "\n", "\n", "d", "\n", "\n", "e">> }

\* the documents given to a fresh splitter
Docs == DocsUpTo(MaxTokens) \cup FixedDocs

\* the documents given to a splitter that is used for several calls
ReuseDocs ==
    { HeadersABC,
      <<"#", " ", "A">>,
      <<"#", "#", " ", "B">>,
      <<"#", "#", "#", " ", "C", " ", "\n", "#", "#", " ", "D">>,
      <<"#", " ", " ">>,
      <<"b", " ", "c">>,
      <<>> }

ChunkSizes == (0..MaxChunkSize) \cup {DefaultChunkSize}

ChunkOverlaps == (0..MaxOverlap) \cup {DefaultChunkOverlap}

(***************************************************************************)
(* State                                                                   *)
(***************************************************************************)
VARIABLES
    chunk_size,      \* TextSplitter.chunk_size
    chunk_overlap,   \* TextSplitter.chunk_overlap
    active_headers,  \* TextSplitter.header_tracker.active_headers
    pc,              \* "idle", "scan" (in update_from_text), "done", "hung"
    calls,           \* the number of split calls made on the instance
    text,            \* split: the argument
    matches,         \* update_from_text: the list returned by re.findall
    idx,             \* update_from_text: the number of matches processed
    protected,       \* split: the protected ranges
    segments,        \* split: the segments
    from_protected,  \* for each segment, whether it is a protected range
    chunks,          \* split: the merged chunks
    final_chunks     \* split: the returned list

vars ==
    <<chunk_size, chunk_overlap, active_headers, pc, calls, text, matches, idx,
      protected, segments, from_protected, chunks, final_chunks>>

config == <<chunk_size, chunk_overlap>>

locals == <<protected, segments, from_protected, chunks, final_chunks>>

\* TextSplitter.__init__
Init ==
    /\ chunk_size \in ChunkSizes
    /\ chunk_overlap \in ChunkOverlaps
    /\ active_headers = EmptyHeaders
    /\ pc = "idle"
    /\ calls = 0
    /\ text = <<>>
    /\ matches = <<>>
    /\ idx = 0
    /\ protected = <<>>
    /\ segments = <<>>
    /\ from_protected = <<>>
    /\ chunks = <<>>
    /\ final_chunks = <<>>

(***************************************************************************)
(* TextSplitter.split                                                      *)
(***************************************************************************)
\* split is entered and update_from_text runs re.findall
SplitBegin(t) ==
    /\ pc \in {"idle", "done"}
    /\ calls < MaxCalls
    /\ pc' = "scan"
    /\ calls' = calls + 1
    /\ text' = t
    /\ matches' = FindHeaders(t, 0)
    /\ idx' = 0
    /\ protected' = <<>>
    /\ segments' = <<>>
    /\ from_protected' = <<>>
    /\ chunks' = <<>>
    /\ final_chunks' = <<>>
    /\ UNCHANGED <<config, active_headers>>

\* one iteration of the for loop of update_from_text
update_from_text ==
    /\ pc = "scan"
    /\ idx < Len(matches)
    /\ active_headers' =
           SetHeader(active_headers, matches[idx + 1].hashes, matches[idx + 1].title)
    /\ idx' = idx + 1
    /\ UNCHANGED <<config, pc, calls, text, matches, locals>>

\* steps 2 to 5 of split for the given text and header path: the values of
\* the locals when split returns; ok is FALSE when it does not return
SplitSteps(t, headers, size, overlap) ==
    LET ranges == extract_protected_ranges(t)
        r      == split_preserving_protected(t, ranges, size)
        segs   == [i \in 1..Len(r.res) |-> r.res[i].txt]
        merged == merge_chunks(segs, size, overlap)
    IN  IF r.ok
        THEN [ok |-> TRUE, protected |-> ranges, segments |-> segs,
              from_protected |-> [i \in 1..Len(r.res) |-> r.res[i].prot],
              chunks |-> merged,
              final_chunks |-> [i \in 1..Len(merged) |-> WithHeaders(headers, merged[i])]]
        ELSE [ok |-> FALSE, protected |-> ranges, segments |-> <<>>,
              from_protected |-> <<>>, chunks |-> <<>>, final_chunks |-> <<>>]

\* steps 2 to 5 of split, after update_from_text has returned
split ==
    /\ pc = "scan"
    /\ idx = Len(matches)
    /\ \E out \in {SplitSteps(text, get_headers(active_headers), chunk_size, chunk_overlap)} :
           /\ pc' = IF out.ok THEN "done" ELSE "hung"
           /\ protected' = out.protected
           /\ segments' = out.segments
           /\ from_protected' = out.from_protected
           /\ chunks' = out.chunks
           /\ final_chunks' = out.final_chunks
    /\ UNCHANGED <<config, active_headers, calls, text, matches, idx>>

\* run(): a fresh TextSplitter splits one document
run == calls = 0 /\ \E t \in Docs : SplitBegin(t)

Next ==
    \/ run
    \/ update_from_text
    \/ split

Spec == Init /\ [][Next]_vars

\* one TextSplitter splits several documents, one after the other
reuse == pc \in {"idle", "done"} /\ \E t \in ReuseDocs : SplitBegin(t)

NextReuse ==
    \/ reuse
    \/ update_from_text
    \/ split

SpecReuse == Init /\ [][NextReuse]_vars

TypeOK ==
    /\ pc \in {"idle", "scan", "done", "hung"}
    /\ calls \in 0..MaxCalls
    /\ idx \in 0..Len(matches)
    /\ DOMAIN active_headers \subseteq 1..6
    /\ Len(from_protected) = Len(segments)

(***************************************************************************)
(* Properties                                                              *)
(***************************************************************************)
\* the characters recursive_split may drop: the whitespace removed by strip()
\* and by the newline separators, and the three sentence terminators
Dropped == Whitespace \cup {FULLSTOP, FW_EXCLAM, FW_QUESTION}

NotDropped(c) == c \notin Dropped

Kept(s) == SelectSeq(s, NotDropped)

RECURSIVE IsSubsequence(_, _)
IsSubsequence(a, b) ==
    IF a = <<>> THEN TRUE
    ELSE IF b = <<>> THEN FALSE
    ELSE IF Head(a) = Head(b) THEN IsSubsequence(Tail(a), Tail(b))
    ELSE IsSubsequence(a, Tail(b))

\* no protected range starts before the end of the range before it
Disjoint(ranges) ==
    \A k \in 1..(Len(ranges) - 1) : ranges[k][2] <= ranges[k + 1][1]

\* segment k with every character replaced by its origin <<k, offset>>
Origins(k) == [o \in 1..Len(segments[k]) |-> <<k, o>>]

\* the chunks of merge_chunks as sequences of origins: merge_chunks looks at
\* the lengths of the segments only, so it cuts these exactly as it cuts
\* the segments themselves
Layout ==
    merge_chunks([k \in 1..Len(segments) |-> Origins(k)], chunk_size, chunk_overlap)

\* segment k is a protected range longer than chunk_size
Oversized(k) == from_protected[k] /\ Len(segments[k]) > chunk_size

\* chunk c of the layout holds the whole of segment k, in one piece
HoldsWhole(c, k) ==
    \E p \in 0..(Len(c) - Len(segments[k])) :
        SubSeq(c, p + 1, p + Len(segments[k])) = Origins(k)

\* the last n elements of s
Last(s, n) == SubSeq(s, Len(s) - n + 1, Len(s))

\* C1 (as stated): for chunk_size >= 1, when split_preserving_protected has
\* returned, the concatenation of its segments, in order, is the original
\* text.
Losslessness == (pc = "done" /\ chunk_size >= 1) => Concat(segments) = text

\* C1 (amended): for chunk_size >= 1 the segments reproduce the text up to
\* whitespace and the sentence terminators: with those characters deleted
\* from both, the text is a subsequence of the concatenation of the
\* segments, and equals it when no two protected ranges overlap.
LosslessUpToSeparators ==
    (pc = "done" /\ chunk_size >= 1) =>
        /\ IsSubsequence(Kept(text), Kept(Concat(segments)))
        /\ Disjoint(protected) => Kept(Concat(segments)) = Kept(text)

\* C1 witness: a protected range and a split gap, with characters dropped
LossySplitReached ==
    /\ pc = "done"
    /\ chunk_size >= 1
    /\ \E k \in 1..Len(segments) : from_protected[k]
    /\ \E k \in 1..Len(segments) : ~from_protected[k]
    /\ Concat(segments) # text

\* C2: for chunk_size >= 1 no chunk (before the header prefix) starts or ends
\* strictly inside a protected range, every protected range lies whole in
\* one chunk, and a protected range longer than chunk_size is all of the new
\* content of its chunk, which then is the carried overlap and that range.
Atomicity ==
    (pc = "done" /\ chunk_size >= 1) =>
        /\ \A i \in 1..Len(Layout) :
               LET c == Layout[i]
               IN  /\ from_protected[c[1][1]] => c[1][2] = 1
                   /\ from_protected[c[Len(c)][1]] =>
                          c[Len(c)][2] = Len(segments[c[Len(c)][1]])
        /\ \A k \in 1..Len(segments) :
               from_protected[k] => \E i \in 1..Len(Layout) : HoldsWhole(Layout[i], k)
        /\ \A k \in 1..Len(segments) :
               Oversized(k) =>
                   \E i \in 1..Len(Layout) :
                       LET c == Layout[i]
                           n == Len(segments[k])
                       IN  /\ Len(c) >= n
                           /\ Last(c, n) = Origins(k)
                           /\ \A p \in 1..(Len(c) - n) :
                                  i > 1 /\ \E q \in 1..Len(Layout[i - 1]) :
                                               Layout[i - 1][q] = c[p]

\* C3: for chunk_size >= 1 every chunk after the first starts with exactly the last
\* min(chunk_overlap, len) characters of the chunk before it, followed at
\* once by the first segment that the chunk before it does not contain.
OverlapCorrectness ==
    (pc = "done" /\ chunk_size >= 1) =>
        \A i \in 1..(Len(Layout) - 1) :
            LET prev == Layout[i]
                m    == Min(chunk_overlap, Len(prev))
                k    == prev[Len(prev)][1] + 1
                c    == Layout[i + 1]
            IN  /\ k <= Len(segments)
                /\ Len(c) >= m + Len(segments[k])
                /\ SubSeq(c, 1, m) = Last(prev, m)
                /\ SubSeq(c, m + 1, m + Len(segments[k])) = Origins(k)
                /\ SubSeq(chunks[i + 1], 1, m) = Last(chunks[i], m)
                /\ SubSeq(chunks[i + 1], m + 1, m + Len(segments[k])) = segments[k]

\* C4: for chunk_size >= 1 every chunk that holds no part of a protected
\* segment longer than chunk_size has at most chunk_size + chunk_overlap
\* characters.
SoftSizeBound ==
    (pc = "done" /\ chunk_size >= 1) =>
        \A i \in 1..Len(chunks) :
            (\A p \in 1..Len(Layout[i]) : ~Oversized(Layout[i][p][1]))
                => Len(chunks[i]) <= chunk_size + chunk_overlap

\* what C5 expects split to return for TitleDoc
TitleChunkExpected ==
    <<"T", "i", "t", "l", "e", "\n", "\n", "S", "o", "m", "e", " ", "s", "h",
      "o", "r", "t", " ", "p", "a", "r", "a", "g", "r", "a", "p", "h", ".">>

TitleCall ==
    /\ pc = "done"
    /\ calls = 1
    /\ text = TitleDoc
    /\ chunk_size = DefaultChunkSize
    /\ chunk_overlap = DefaultChunkOverlap

\* C5 (as stated): a fresh TextSplitter(200, 50) splits TitleDoc into the
\* one chunk "Title\n\nSome short paragraph.".
TitleScenario == TitleCall => final_chunks = <<TitleChunkExpected>>

\* C5 (amended): a fresh TextSplitter(200, 50) splits TitleDoc into exactly
\* one chunk, the header path "Title", a blank line, and the whole document
\* with its header line: "Title\n\n# Title\n\nSome short paragraph.".
TitleScenarioWithHeaderLine ==
    TitleCall =>
        final_chunks = << <<"T", "i", "t", "l", "e", "\n", "\n">> \o TitleDoc >>

\* C5 witness: the call of the scenario has returned
TitleCallReturned == TitleCall /\ Len(final_chunks) = 1

\* C6: the header map is empty whenever a split call starts, on an instance
\* that has served any number of earlier calls.
PerCallHeaderState ==
    [][(pc # "scan" /\ pc' = "scan") => active_headers = EmptyHeaders]_vars

\* C7: when split returns, every returned chunk is the merged chunk behind
\* the one header path left by the scan of the whole text and a blank line,
\* and is the merged chunk itself when that path is empty.
HeaderDeterminism ==
    pc = "done" =>
        LET header_path == get_headers(active_headers)
        IN  /\ idx = Len(matches)
            /\ matches = FindHeaders(text, 0)
            /\ Len(final_chunks) = Len(chunks)
            /\ \A i \in 1..Len(chunks) :
                   final_chunks[i] =
                       IF header_path = <<>> THEN chunks[i]
                       ELSE header_path \o <<"\n", "\n">> \o chunks[i]

\* C7 witness: several chunks returned under a header path of two levels
PrefixedChunksReached ==
    /\ pc = "done"
    /\ Len(final_chunks) >= 2
    /\ Cardinality(DOMAIN active_headers) >= 2
    /\ final_chunks[2] # chunks[2]

\* C8: for chunk_size >= 1 every piece returned by recursive_split is
\* non-empty after trimming.
PiecesNonEmpty ==
    (pc = "done" /\ chunk_size >= 1) =>
        \A k \in 1..Len(segments) :
            ~from_protected[k] => Strip(segments[k]) # <<>>

\* C9: after update_from_text has processed a header line of level L, the
\* map holds that line's trimmed title at L and no level above L; the
\* headers # A, ## B, # C leave the header path "C".
HeaderClearing ==
    /\ (pc = "scan" /\ idx >= 1) =>
           LET level == matches[idx].hashes
           IN  /\ level \in DOMAIN active_headers
               /\ active_headers[level] = Strip(matches[idx].title)
               /\ \A k \in DOMAIN active_headers : k <= level
    /\ (pc = "scan" /\ text = HeadersABC /\ idx = Len(matches)) =>
           get_headers(active_headers) = <<"C">>

\* C9 witness: # C has been processed on an instance whose map held deeper
\* levels from an earlier call
DeeperLevelsCleared ==
    /\ pc = "scan"
    /\ calls = 2
    /\ text = HeadersABC
    /\ idx = 3
    /\ DOMAIN active_headers = {1}

\* C10: split returns for every text and every chunk_size and chunk_overlap
\* the constructor accepts.
Totality == pc # "hung"

====
